---- MODULE Spec2Model ----
(***************************************************************************)
(* gcpfire: ComputeAPI.fire and the components it drives.                  *)
(*                                                                         *)
(*   compute.py    ComputeAPI.fire, create_instance, wait_for_response,    *)
(*                 list_instances, add_ssh_keys, delete_instance, cleanup  *)
(*   instance.py   Instance.remote_execute_script, delete_local_keyfile    *)
(*   ssh_client.py invoke_line and the three commands built on it          *)
(*   keys.py       write_privatekey, delete_key_file                       *)
(*                                                                         *)
(* The provider (compute control plane), the remote-shell transport, the   *)
(* local file system and the confirmation prompt are the environment:      *)
(* every call to them answers with one of the outcomes the call can have,  *)
(* chosen nondeterministically.                                            *)
(***************************************************************************)
EXTENDS Integers, Sequences, FiniteSets, TLC

----------------------------------------------------------------------------
(* Bounds of the model *)

\* largest max_retry argument given to fire
MaxRetry == 3
\* most non-terminal answers one operation gives before it reports DONE
MaxPolls == 2
\* longest error list a terminal operation response carries
MaxErrors == 2
\* how far above the hard cap an instance listing goes
MaxOver == 1
\* most metadata items a fetched instance carries
MaxItems == 3
\* most entries of a job's accelerator mapping
MaxAccelerators == 2
\* concurrent add_ssh_keys runs on one instance
MaxWriters == 2
\* concurrent fire invocations in one project and zone
MaxFires == 2
\* lines of each output stream of a subprocess looked at on its own
MaxLines == 2

(* Program constants *)

\* compute.py:17
HARD_LIMIT_MAX_INSTANCES == 10

----------------------------------------------------------------------------
(* Values *)

\* Python's None where a string is expected (external_ip, script_path)
None == "None"
\* Python's None where a path is expected (private_key_file)
NonePath == << >>

JobNames == {"t1", "t2"}
ScriptPaths == {None, "run.sh"}

\* A message string: a literal, or a format applied to its arguments
\* ("ERROR: %s" % stderr).
Msg(fmt, args) == [fmt |-> fmt, args |-> args]
NoMsg == Msg("", << >>)

\* An exception object: class name, message, the provider's error structure
\* (Exception(result["error"])) and the attached stderr buffer.
Exc(type, message, errors, stderror) ==
    [type |-> type, message |-> message, errors |-> errors, stderror |-> stderror]

\* no exception
NoExc == Exc("None", NoMsg, << >>, << >>)

\* googleapiclient's HttpError, raised by any .execute()
HttpError == Exc("HttpError", NoMsg, << >>, << >>)

----------------------------------------------------------------------------
(* compute.py: the provider's answers *)

\* structured errors of an operation
ErrExhausted == [code |-> "ZONE_RESOURCE_POOL_EXHAUSTED", message |-> "no capacity"]
ErrQuota == [code |-> "QUOTA_EXCEEDED", message |-> "quota exceeded"]
OpErrors == {ErrExhausted, ErrQuota}

RECURSIVE SeqsUpTo(_, _)
\* all sequences over S of length at most n
SeqsUpTo(S, n) ==
    IF n = 0 THEN {<< >>}
    ELSE LET shorter == SeqsUpTo(S, n - 1)
         IN shorter \cup {Append(s, x) : s \in {t \in shorter : Len(t) = n - 1}, x \in S}

ErrorLists == SeqsUpTo(OpErrors, MaxErrors)

\* the "error" field of an operation resource: absent, or {"errors": [...]}
NoErrorField == [present |-> FALSE, errors |-> << >>]
ErrorField(errs) == [present |-> TRUE, errors |-> errs]

\* zoneOperations().get responses
OpResponses ==
    [status : {"PENDING", "RUNNING"}, progress : {0}, error : {NoErrorField}]
    \cup [status : {"RUNNING"}, progress : {50}, error : {ErrorField(<<ErrQuota>>)}]
    \cup [status : {"DONE"}, progress : {99, 100}, error : {NoErrorField}]
    \cup [status : {"DONE"}, progress : {100}, error : {ErrorField(e) : e \in ErrorLists}]

\* response before any getOperation call of the current wait
NoResponse == [status |-> "NONE", progress |-> 0, error |-> NoErrorField]

\* instances().list responses: "items" absent, or a list of instance resources
ListSizes == {0} \cup (HARD_LIMIT_MAX_INSTANCES .. (HARD_LIMIT_MAX_INSTANCES + MaxOver))
ListResponses ==
    {[hasItems |-> FALSE, items |-> << >>]}
    \cup {[hasItems |-> TRUE, items |-> [i \in 1 .. n |-> [name |-> "vm"]]] : n \in ListSizes}

\* the value list_instances returns: None or the item list
NoneList == [isNone |-> TRUE, items |-> << >>]
SomeList(items) == [isNone |-> FALSE, items |-> items]

\* compute.py:82-84
list_instances(response) ==
    IF response.hasItems THEN SomeList(response.items) ELSE NoneList

\* the cap check comparing against one more than the cap
TooManyOffByOne(instances) ==
    ~instances.isNone /\ Len(instances.items) > HARD_LIMIT_MAX_INSTANCES + 1

\* the cap check refusing a listing at the cap
TooManyAtCap(instances) ==
    ~instances.isNone /\ Len(instances.items) >= HARD_LIMIT_MAX_INSTANCES

\* the cap check letting every listing pass
TooManyNever(instances) == FALSE

\* compute.py:166: the cap check
TooMany(instances) ==
    ~instances.isNone /\ Len(instances.items) > HARD_LIMIT_MAX_INSTANCES


\* The outcome of a call: it returns a value, raises, or (one iteration of a
\* loop) goes round again.
Return(v) == [kind |-> "return", value |-> v, exc |-> NoExc]
Raise(e) == [kind |-> "raise", value |-> << >>, exc |-> e]

\* the classification looking at the first error only, whatever the list's length
ClassifyByFirstError(result) ==
    LET errors == result.error.errors
    IN IF Len(errors) >= 1 /\ errors[1].code = "ZONE_RESOURCE_POOL_EXHAUSTED"
       THEN Exc("NoResourcesError", Msg(errors[1].message, << >>), << >>, << >>)
       ELSE IF Len(errors) >= 1
       THEN Exc("Exception", Msg(errors[1].message, << >>), << >>, << >>)
       ELSE Exc("Exception", NoMsg, errors, << >>)

\* compute.py:69-76: the error raised for a terminal response with an error field
ClassifyOperationError(result) ==
    LET errors == result.error.errors
    IN IF Len(errors) = 1 /\ errors[1].code = "ZONE_RESOURCE_POOL_EXHAUSTED"
       THEN Exc("NoResourcesError", Msg(errors[1].message, << >>), << >>, << >>)
       ELSE IF Len(errors) = 1
       THEN Exc("Exception", Msg(errors[1].message, << >>), << >>, << >>)
       ELSE Exc("Exception", NoMsg, errors, << >>)

\* the loop taking every status but "PENDING" for terminal
WaitIterationNotPending(result) ==
    IF result.status # "PENDING"
    THEN IF result.error.present
         THEN [kind |-> "raise", value |-> NoResponse, exc |-> ClassifyByFirstError(result)]
         ELSE [kind |-> "return", value |-> result, exc |-> NoExc]
    ELSE [kind |-> "sleep", value |-> NoResponse, exc |-> NoExc]

\* the loop returning every terminal response, its error field unread
WaitIterationReturnsErrors(result) ==
    IF result.status = "DONE"
    THEN [kind |-> "return", value |-> result, exc |-> NoExc]
    ELSE [kind |-> "sleep", value |-> NoResponse, exc |-> NoExc]

\* the loop returning a terminal response whose error list is empty
WaitIterationEmptyErrorsReturn(result) ==
    IF result.status = "DONE"
    THEN IF result.error.present /\ Len(result.error.errors) > 0
         THEN [kind |-> "raise", value |-> NoResponse, exc |-> ClassifyOperationError(result)]
         ELSE [kind |-> "return", value |-> result, exc |-> NoExc]
    ELSE [kind |-> "sleep", value |-> NoResponse, exc |-> NoExc]

\* compute.py:62-80: one iteration of wait_for_response's loop on the response
\* `result`: "return" it, "raise", or "sleep" (time.sleep(1)) and poll again
WaitIteration(result) ==
    IF result.status = "DONE"
    THEN IF result.error.present
         THEN [kind |-> "raise", value |-> NoResponse, exc |-> ClassifyOperationError(result)]
         ELSE [kind |-> "return", value |-> result, exc |-> NoExc]
    ELSE [kind |-> "sleep", value |-> NoResponse, exc |-> NoExc]

----------------------------------------------------------------------------
(* instance.py: InstanceSpecBuilder *)

\* instance.py:126: "zones/%s/machineTypes/%s" % (zone, self.machine_type)
MachineType(zone, machine_type) == <<"zones/", zone, "/machineTypes/", machine_type>>

\* the accelerator type with zone and project changing places
AcceleratorTypeZoneFirst(project, zone, label) ==
    <<"projects/", zone, "/zones/", project, "/acceleratorTypes/", label>>

\* instance.py:132-136: "projects/%s/zones/%s/acceleratorTypes/%s"
\* % (project, zone, label)
AcceleratorType(project, zone, label) ==
    <<"projects/", project, "/zones/", zone, "/acceleratorTypes/", label>>

\* instance.py:129-137: one entry for each item of self.gpus, in the
\* mapping's order; gpus is the sequence of the mapping's (label, count) items
GuestAccelerators(project, zone, gpus) ==
    [i \in 1 .. Len(gpus) |->
        [acceleratorCount |-> gpus[i].count,
         acceleratorType |-> AcceleratorType(project, zone, gpus[i].label)]]

\* instance.py:139-157: meta_items; startup_script is what was read from
\* startup_script_path
MetaItems(b, startup_script) ==
    <<[key |-> "serial-port-enable", value |-> <<"False">>],
      [key |-> "enable-oslogin", value |-> <<"False">>]>>
    \o b.additional_meta.items
    \o (IF b.startup_script_path = None THEN << >>
        ELSE <<[key |-> "startup-script", value |-> startup_script]>>)

\* instance.py:159-204: self.config, the fields that depend on the job
Build(project, zone, b, startup_script) ==
    [built |-> TRUE,
     name |-> b.name,
     machineType |-> MachineType(zone, b.machine_type),
     guestAccelerators |-> GuestAccelerators(project, zone, b.gpus),
     metadata |-> MetaItems(b, startup_script)]

\* the builder before build
NoConfig ==
    [built |-> FALSE, name |-> "", machineType |-> << >>, guestAccelerators |-> << >>,
     metadata |-> << >>]

\* instance.py:93-109 and compute.py:155-163: the builder of a job; the
\* accelerator mapping's labels are pairwise different
Builder(name, machine_type, gpus, additional_meta, startup_script_path) ==
    [name |-> name, machine_type |-> machine_type, gpus |-> gpus,
     additional_meta |-> additional_meta, startup_script_path |-> startup_script_path]

\* the accelerator mappings of up to n entries
AcceleratorMappings(n) ==
    {gpus \in SeqsUpTo([label : {"nvidia-tesla-t4", "nvidia-tesla-k80", "tpu-v2"},
                         count : {1, 4}], n) :
        \A i, j \in 1 .. Len(gpus) : gpus[i].label = gpus[j].label => i = j}

----------------------------------------------------------------------------
(* compute.py: instance metadata and the ssh-keys merge of add_ssh_keys *)

\* A string is the sequence of its pieces; the piece "\n" is a line break and
\* no other piece holds one. Concatenation is \o.
Newline == "\n"

\* str.split("\n"): the segments between line breaks; "" gives [""]
RECURSIVE Split(_)
Split(str) ==
    IF str = << >> THEN << << >> >>
    ELSE LET front == Split(SubSeq(str, 1, Len(str) - 1))
             last == str[Len(str)]
         IN IF last = Newline
            THEN Append(front, << >>)
            ELSE [front EXCEPT ![Len(front)] = Append(@, last)]

\* "\n".join(segments)
RECURSIVE Join(_)
Join(segments) ==
    IF segments = << >> THEN << >>
    ELSE IF Len(segments) = 1 THEN segments[1]
    ELSE Join(SubSeq(segments, 1, Len(segments) - 1)) \o <<Newline>>
         \o segments[Len(segments)]

\* a metadata item
Item(key, value) == [key |-> key, value |-> value]

\* entries already in an instance's ssh-keys value
KeyAlice == "alice:ssh-rsa AAAA alice"
KeyBob == "bob:ssh-rsa BBBB bob"

\* instance.py:139-143: the items an instance is created with, and the
\* ssh-keys item a project or an earlier writer may have added
OtherItems ==
    {Item("serial-port-enable", <<"False">>),
     Item("enable-oslogin", <<"False">>),
     Item("project_id", <<"main-composite">>)}
SshKeysItems ==
    {Item("ssh-keys", v) : v \in {<< >>, <<KeyAlice>>, <<KeyAlice, Newline, KeyBob>>,
                                   <<KeyAlice, Newline>>}}

\* the item lists of up to n items instances().get can answer with: the code
\* takes any list, a key met twice included
ItemLists(n) == SeqsUpTo(OtherItems \cup SshKeysItems, n)

\* instances().get responses: None, or the instance resource
NoInstanceResponse == [found |-> FALSE, fingerprint |-> "", items |-> << >>, natIP |-> None]
Fetched(fingerprint, items) ==
    [found |-> TRUE, fingerprint |-> fingerprint, items |-> items, natIP |-> "34.0.0.1"]
InstanceResponses ==
    {NoInstanceResponse,
     Fetched("fp1", <<Item("serial-port-enable", <<"False">>),
                      Item("enable-oslogin", <<"False">>)>>),
     Fetched("fp2", <<Item("serial-port-enable", <<"False">>),
                      Item("ssh-keys", <<KeyAlice>>),
                      Item("project_id", <<"main-composite">>)>>)}

\* keys.py:13-28: the public keys generate_keypair can give, the user name
\* appended
PublicKeys(username) == {<<"ssh-rsa CCCC", " ", username>>, <<"ssh-rsa DDDD", " ", username>>}

\* compute.py:120: f"{username}:{pub.decode()}"
KeyEntry(username, pub) == <<username, ":">> \o pub

\* compute.py:106-111: keys, extended by the split value of every ssh-keys
\* item in the order the items are met
RECURSIVE ExistingKeys(_)
ExistingKeys(items) ==
    IF items = << >> THEN << >>
    ELSE LET item == items[Len(items)]
             before == ExistingKeys(SubSeq(items, 1, Len(items) - 1))
         IN IF item.key = "ssh-keys" THEN before \o Split(item.value) ELSE before

\* the merge putting the new entry first
MergeKeysNewFirst(items, entry) == <<entry>> \o ExistingKeys(items)

\* the merge keeping only the new entry
MergeKeysDropOld(items, entry) == <<entry>>

\* compute.py:106-111 and 120: the existing keys, then the new entry appended
MergeKeys(items, entry) == Append(ExistingKeys(items), entry)

\* compute.py:107-113: other_items
OtherItemsOf(items) == SelectSeq(items, LAMBDA item : item.key # "ssh-keys")

\* compute.py:108 and 122: the body of setMetadata
MetadataBody(instance, username, pub) ==
    [items |-> <<Item("ssh-keys", Join(MergeKeys(instance.items, KeyEntry(username, pub))))>>
               \o OtherItemsOf(instance.items),
     fingerprint |-> instance.fingerprint]

\* compute.py:97: add_ssh_keys' default user name
DefaultUsername == "gcpfire"

----------------------------------------------------------------------------
(* keys.py: local secret storage *)

\* keys.py:39: os.path.join(outpath, name + "_private.key")
PrivateKeyPath(outpath, name) == <<outpath, name, "_private.key">>

\* compute.py:117: outpath = os.path.join(os.getcwd(), "secrets")
SecretsDir == "secrets"

----------------------------------------------------------------------------
(* ssh_client.py *)

\* a line of a byte stream: its first word and the rest
Line(head, tail) == [head |-> head, tail |-> tail]
WarnLine == Line("Warning", ": Permanently added to the list of known hosts.")
ErrLine == Line("ssh", ": connect to host port 22: Connection refused")
DeniedLine == Line("Permission", " denied (publickey).")
OutLineA == Line("1", "")
OutLineB == Line("epoch", " 3 done")

\* what a subprocess can produce; installed = FALSE: the executable is not in PATH
ProcessOutputs ==
    [installed : {TRUE},
     stdout : {<< >>, <<OutLineA>>, <<OutLineB>>},
     stderr : {<< >>, <<WarnLine>>, <<ErrLine>>, <<WarnLine, DeniedLine>>}]
    \cup {[installed |-> FALSE, stdout |-> << >>, stderr |-> << >>]}

\* line.startswith(b"Warning")
StartsWithWarning(line) == line.head = "Warning"

\* ssh_client.py:143: the lines of stderr that count as errors
FatalLines(stderr, strict) ==
    SelectSeq(stderr, LAMBDA line : (~StartsWithWarning(line)) \/ strict)

\* ssh_client.py:122-149
invoke_line(proc, strict) ==
    IF ~proc.installed
    THEN Raise(Exc("FileNotFoundError", Msg("ssh client is not installed?", << >>), << >>, << >>))
    ELSE IF proc.stdout = << >> /\ Len(FatalLines(proc.stderr, strict)) > 0
    THEN Raise(Exc("ShellExecutionError",
                   Msg("ERROR: %s", FatalLines(proc.stderr, strict)),
                   << >>, FatalLines(proc.stderr, strict)))
    ELSE Return(proc.stdout)

\* ssh_client.py:36-56, 59-77, 80-105: each builds its command line and hands
\* it to invoke_line (strict is left at its default)
test_connection(proc) == invoke_line(proc, FALSE)
ssh_copy_file(proc) == invoke_line(proc, FALSE)
ssh_run_command(proc) == invoke_line(proc, FALSE)

\* isinstance(e, ssh.ShellExecutionError): RemoteExecutionError is a subclass
IsShellExecutionError(e) == e.type \in {"ShellExecutionError", "RemoteExecutionError"}


----------------------------------------------------------------------------
(* State *)

VARIABLES
    pc,                   \* where fire stands
    job_name,             \* job.job_name, the instance's name
    script_path,          \* job.job_script_path
    wait,                 \* fire's wait argument
    max_retry,            \* fire's max_retry argument
    retry_wait,           \* fire's retry_wait argument
    api,                  \* the ComputeAPI's project and zone
    builder,              \* the InstanceSpecBuilder's fields, taken from the job
    config,               \* builder.config, the body given to instances().insert
    instances,            \* fire's local `instances`: the last listing
    result,               \* wait_for_response's local `result`: the last response
    waitReturn,           \* what the last wait_for_response returned
    nonTerminal,          \* non-terminal answers the provider gave the current wait
    nGetOp,               \* zoneOperations().get calls of the current wait
    nPollSleep,           \* time.sleep(1) calls of the current wait
    request_instance_get, \* add_ssh_keys' local: the fetched instance
    key_file,             \* add_ssh_keys' local private_key_file
    body,                 \* the body given to setMetadata
    external_ip,          \* this_instance.external_ip
    private_key_file,     \* this_instance.private_key_file
    files,                \* the key files on local storage
    attempt,              \* iterations of remote_execute_script's loop begun
    err,                  \* remote_execute_script's local `err` (NoExc: unbound)
    transport,            \* how often remote_execute_script ran each command
    failures,             \* ShellExecutionErrors caught, by the command that raised
    sleptSeconds,         \* seconds slept by remote_execute_script
    script_stdout,        \* what ssh_run_command returned
    calls,                \* how often the provider and the prompt were called
    deleteArg,            \* the instance name given to instances().delete
    pending,              \* the try block's outcome while the finally clause runs
    outcome,              \* how fire ended
    server,               \* the provider's metadata of one instance: items, version
    writers,              \* the add_ssh_keys runs at work on that instance
    accepted,             \* the setMetadata bodies the provider accepted
    zone,                 \* number of instances in the project and zone
    fires,                \* the fire invocations at work in that zone
    shell                 \* one invoke_line call: the subprocess, strict, the outcome

vars == <<pc, job_name, script_path, wait, max_retry, retry_wait, api, builder, config,
          instances, result,
          waitReturn, nonTerminal, nGetOp, nPollSleep, request_instance_get, key_file,
          body, external_ip,
          private_key_file, files, attempt, err, transport, failures, sleptSeconds,
          script_stdout, calls, deleteArg, pending, outcome,
          server, writers, accepted, zone, fires, shell>>

inputVars == <<job_name, script_path, wait, max_retry, retry_wait, api, builder>>
\* the provider's side and the runs of several callers, used where more than
\* one caller is at work
writerVars == <<server, writers, accepted>>
zoneVars == <<zone, fires>>
waitVars == <<result, waitReturn, nonTerminal, nGetOp, nPollSleep>>
instanceVars == <<external_ip, private_key_file>>
execVars == <<attempt, err, transport, failures, sleptSeconds, script_stdout>>
fireVars == <<pc, inputVars, config, instances, waitVars, request_instance_get, key_file, body,
              instanceVars, files, execVars, calls, deleteArg, pending, outcome>>

Collaborators ==
    {"getFromFamily", "list", "insert", "get", "setMetadata", "delete", "input"}

NoCalls == [c \in Collaborators |-> 0]
Called(c) == [calls EXCEPT ![c] = @ + 1]

Commands == {"purge", "probe", "copy", "run"}
NoCommands == [c \in Commands |-> 0]
Ran(c) == [transport EXCEPT ![c] = @ + 1]

NoFailures == [c \in {"probe", "copy", "run"} |-> 0]

Running == [kind |-> "running", value |-> << >>, exc |-> NoExc, context |-> NoExc]
Returned(v) == [kind |-> "return", value |-> v, exc |-> NoExc, context |-> NoExc]
Raised(e, context) == [kind |-> "raise", value |-> << >>, exc |-> e, context |-> context]

NoBody == [items |-> << >>, fingerprint |-> ""]

\* the callers of add_ssh_keys on one instance, and of fire in one zone
Writers == 1 .. MaxWriters
Fires == 1 .. MaxFires

\* the provider's fingerprint of the metadata after version - 1 accepted
\* writes: every accepted write gives one not seen before
FingerprintAt(version) == <<"fp", version>>

\* keys.py:13-28: generate_keypair of one caller, no two callers' alike
WriterPublicKey(w, username) ==
    <<<<"ssh-rsa W1", "ssh-rsa W2", "ssh-rsa W3", "ssh-rsa W4">>[w], " ", username>>

\* a writer: where its add_ssh_keys stands, its locals request_instance_get
\* and body, the non-terminal responses its wait was given, and its handle
NoWriters ==
    [w \in Writers |-> [pc |-> "idle", fetched |-> NoInstanceResponse, body |-> NoBody,
                        nonTerminal |-> 0, external_ip |-> None,
                        private_key_file |-> NonePath]]
\* a fire invocation: where it stands, its local `instances`, whether its
\* insert request was taken, and the non-terminal responses its wait was given
NoFires ==
    [o \in Fires |-> [pc |-> "idle", instances |-> NoneList, inserted |-> FALSE,
                      nonTerminal |-> 0]]

\* one fire alone: no other caller is at work
\* no invoke_line call is looked at on its own
NoShell ==
    [proc |-> [installed |-> TRUE, stdout |-> << >>, stderr |-> << >>],
     strict |-> FALSE,
     out |-> [kind |-> "none", value |-> << >>, exc |-> NoExc]]

Alone ==
    /\ server = [items |-> << >>, version |-> 1]
    /\ writers = NoWriters
    /\ accepted = {}
    /\ zone = 0
    /\ fires = NoFires
    /\ shell = NoShell

\* fire's locals and the records kept of it before its first statement
NotStarted ==
    /\ pc = "get_image"
    /\ config = NoConfig
    /\ instances = NoneList
    /\ result = NoResponse
    /\ waitReturn = NoResponse
    /\ nonTerminal = 0
    /\ nGetOp = 0
    /\ nPollSleep = 0
    /\ request_instance_get = NoInstanceResponse
    /\ key_file = NonePath
    /\ body = NoBody
    /\ external_ip = None
    /\ private_key_file = NonePath
    /\ files = {}
    /\ attempt = 0
    /\ err = NoExc
    /\ transport = NoCommands
    /\ failures = NoFailures
    /\ sleptSeconds = 0
    /\ script_stdout = << >>
    /\ calls = NoCalls
    /\ deleteArg = None
    /\ pending = Running
    /\ outcome = Running

\* integration_test.py:33-52: a job with one accelerator, and job.py:14: a
\* job whose additional_meta is left at its default
JobBuilders(name) ==
    {Builder(name, "n1-standard-4", <<[label |-> "nvidia-tesla-t4", count |-> 1]>>,
             SomeList(<<Item("project_id", <<"main-composite">>)>>), "startup.sh"),
     Builder(name, "n1-standard-4", << >>, NoneList, None)}

\* integration_test.py:51: ComputeAPI(PROJECT_ID, ZONE)
TheApi == [project |-> "main-composite", zone |-> "europe-west4-b"]

\* one job, for the runs of several callers
OneJob ==
    /\ job_name = "t1"
    /\ script_path = "run.sh"
    /\ wait = FALSE
    /\ max_retry = MaxRetry
    /\ retry_wait = 1
    /\ api = TheApi
    /\ builder = Builder("t1", "n1-standard-4", << >>, SomeList(<< >>), None)

Init ==
    /\ job_name \in JobNames
    /\ script_path \in ScriptPaths
    /\ wait \in BOOLEAN
    /\ max_retry \in 0 .. MaxRetry
    /\ retry_wait \in {1, 5}
    /\ api = TheApi
    /\ builder \in JobBuilders(job_name)
    /\ NotStarted
    /\ Alone

----------------------------------------------------------------------------
(* compute.py: fire up to the try block *)

\* fire ends by raising e, outside the try block: no finally clause runs
FireRaises(e) ==
    /\ pc' = "done"
    /\ outcome' = Raised(e, NoExc)

\* compute.py:153 and 43-49
GetImageLink ==
    /\ pc = "get_image"
    /\ calls' = Called("getFromFamily")
    /\ \/ /\ pc' = "list_pre"
          /\ UNCHANGED outcome
       \/ FireRaises(HttpError)
    /\ UNCHANGED <<inputVars, config, writerVars, zoneVars, shell,
                   instances, waitVars, request_instance_get, key_file, body,
                   instanceVars, files, execVars, deleteArg, pending>>

\* compute.py:165-167
CapCheck ==
    /\ pc = "list_pre"
    /\ calls' = Called("list")
    /\ \/ \E response \in ListResponses :
             /\ instances' = list_instances(response)
             /\ IF TooMany(instances')
                THEN FireRaises(Exc("TooManyInstancesError", NoMsg, << >>, << >>))
                ELSE pc' = "insert" /\ UNCHANGED outcome
       \/ FireRaises(HttpError) /\ UNCHANGED instances
    /\ UNCHANGED <<inputVars, config, writerVars, zoneVars, shell,
                   waitVars, request_instance_get, key_file, body, instanceVars,
                   files, execVars, deleteArg, pending>>

\* add_ssh_keys giving the handle its address and leaving out the key file
WaitReturnsIpOnly(stage) ==
    CASE stage = "create_wait" ->
           /\ pc' = "list_post"
           /\ UNCHANGED <<instanceVars, outcome>>
      [] stage = "meta_wait" ->
           /\ external_ip' = request_instance_get.natIP
           /\ pc' = "execute"
           /\ UNCHANGED <<private_key_file, outcome>>
      [] stage = "delete_wait" ->
           /\ pc' = "erase"
           /\ UNCHANGED <<instanceVars, outcome>>

\* compute.py:58, 135 and 150: wait_for_response returns to its caller.
\* create_instance returns to fire (line 174); add_ssh_keys gives the Instance
\* handle its address and key file and fire enters the try block; cleanup
\* goes on to erase the key file.
WaitReturns(stage) ==
    CASE stage = "create_wait" ->
           /\ pc' = "list_post"
           /\ UNCHANGED <<instanceVars, outcome>>
      [] stage = "meta_wait" ->
           /\ external_ip' = request_instance_get.natIP
           /\ private_key_file' = key_file
           /\ pc' = "execute"
           /\ UNCHANGED outcome
      [] stage = "delete_wait" ->
           /\ pc' = "erase"
           /\ UNCHANGED <<instanceVars, outcome>>

\* fire creating the instance again when the create operation failed
WaitRaisesRetries(stage, e) ==
    IF stage = "create_wait"
    THEN /\ pc' = "insert"
         /\ UNCHANGED <<instanceVars, outcome>>
    ELSE /\ pc' = "done"
         /\ outcome' = IF stage = "delete_wait" THEN Raised(e, pending.exc)
                       ELSE Raised(e, NoExc)
         /\ UNCHANGED instanceVars

\* cleanup erasing the key file although the wait for the delete raised
WaitRaisesGoesOnErasing(stage, e) ==
    IF stage = "delete_wait"
    THEN /\ pc' = "erase"
         /\ UNCHANGED <<instanceVars, outcome>>
    ELSE /\ pc' = "done"
         /\ outcome' = Raised(e, NoExc)
         /\ UNCHANGED instanceVars

\* wait_for_response raises e: before the try block fire ends with e; in
\* cleanup e replaces what the try block left pending, which Python keeps as
\* the new exception's __context__
WaitRaises(stage, e) ==
    /\ pc' = "done"
    /\ outcome' = IF stage = "delete_wait" THEN Raised(e, pending.exc)
                  ELSE Raised(e, NoExc)
    /\ UNCHANGED instanceVars

\* compute.py:60-80: one iteration of wait_for_response's loop, for the wait
\* at `stage`. The provider answers with any response (non-terminal ones at
\* most MaxPolls times per wait) or the call raises HttpError.
WaitForResponse(stage) ==
    /\ pc = stage
    /\ nGetOp' = nGetOp + 1
    /\ \/ \E response \in OpResponses :
             /\ response.status # "DONE" => nonTerminal < MaxPolls
             /\ nonTerminal' = IF response.status # "DONE" THEN nonTerminal + 1
                               ELSE nonTerminal
             /\ result' = response
             /\ LET iteration == WaitIteration(response)
                IN CASE iteration.kind = "sleep" ->
                          /\ nPollSleep' = nPollSleep + 1
                          /\ UNCHANGED <<pc, waitReturn, instanceVars, outcome>>
                     [] iteration.kind = "return" ->
                          /\ waitReturn' = iteration.value
                          /\ WaitReturns(stage)
                          /\ UNCHANGED nPollSleep
                     [] iteration.kind = "raise" ->
                          /\ WaitRaises(stage, iteration.exc)
                          /\ UNCHANGED <<nPollSleep, waitReturn>>
       \/ /\ WaitRaises(stage, HttpError)
          /\ UNCHANGED <<result, nonTerminal, nPollSleep, waitReturn>>
    /\ UNCHANGED <<inputVars, config, writerVars, zoneVars, shell,
                   instances, request_instance_get, key_file, body, files,
                   execVars, calls, deleteArg, pending>>

\* a wait begins: wait_for_response is entered with fresh locals
BeginWait(stage) ==
    /\ pc' = stage
    /\ result' = NoResponse
    /\ nonTerminal' = 0
    /\ nGetOp' = 0
    /\ nPollSleep' = 0

\* the caller of a returned wait_for_response goes on: the locals and the
\* return value of that call, which no caller keeps, are gone
WaitFrameGone ==
    /\ result' = NoResponse
    /\ waitReturn' = NoResponse
    /\ nonTerminal' = 0
    /\ nGetOp' = 0
    /\ nPollSleep' = 0

\* compute.py:172, 51-56 and instance.py:111-206: the builder builds the config
\* (unpacking additional_meta fails when it is None, open() fails when the
\* startup script cannot be read) and the config is given to instances().insert
CreateInstanceRequest ==
    /\ pc = "insert"
    /\ \/ /\ builder.additional_meta.isNone
          /\ FireRaises(Exc("TypeError", NoMsg, << >>, << >>))
          /\ UNCHANGED <<config, calls, result, nonTerminal, nGetOp, nPollSleep>>
       \/ /\ ~builder.additional_meta.isNone
          /\ builder.startup_script_path # None
          /\ FireRaises(Exc("FileNotFoundError", NoMsg, << >>, << >>))
          /\ UNCHANGED <<config, calls, result, nonTerminal, nGetOp, nPollSleep>>
       \/ /\ ~builder.additional_meta.isNone
          /\ config' = Build(api.project, api.zone, builder, <<"#!/bin/bash">>)
          /\ calls' = Called("insert")
          /\ \/ BeginWait("create_wait") /\ UNCHANGED outcome
             \/ FireRaises(HttpError) /\ UNCHANGED <<result, nonTerminal, nGetOp, nPollSleep>>
    /\ UNCHANGED <<inputVars, writerVars, zoneVars, shell,
                   instances, waitReturn, request_instance_get,
                   key_file, body, instanceVars, files, execVars, deleteArg, pending>>

\* compute.py:57: the wait of create_instance; fire goes on at line 174
WaitCreate == WaitForResponse("create_wait")

\* compute.py:174-180
\* the re-listing's test letting every listing pass
NoInstancesNever(listing) == FALSE

\* compute.py:175-180: `instances is not None`, else NoInstancesError
NoInstancesReported(listing) == listing.isNone

ListAfterCreate ==
    /\ pc = "list_post"
    /\ WaitFrameGone
    /\ calls' = Called("list")
    /\ \/ \E response \in ListResponses :
             /\ instances' = list_instances(response)
             /\ IF NoInstancesReported(instances')
                THEN FireRaises(Exc("NoInstancesError", NoMsg, << >>, << >>))
                ELSE pc' = "get_instance" /\ UNCHANGED outcome
       \/ FireRaises(HttpError) /\ UNCHANGED instances
    /\ UNCHANGED <<inputVars, config, writerVars, zoneVars, shell,
                   request_instance_get, key_file, body,
                   instanceVars, files, execVars, deleteArg, pending>>

----------------------------------------------------------------------------
(* compute.py: add_ssh_keys, called at line 184, before the try block *)

\* the test of the fetched instance letting every answer pass
InstanceMissingNever(response) == FALSE

\* compute.py:103 and 136-138: `request_instance_get is not None`, else
\* InstanceNotExistsError
InstanceMissing(response) == ~response.found

\* compute.py:97-103 and 136-138: instances().get
GetInstance ==
    /\ pc = "get_instance"
    /\ calls' = Called("get")
    /\ \/ \E response \in InstanceResponses :
             /\ request_instance_get' = response
             /\ IF InstanceMissing(response)
                THEN FireRaises(Exc("InstanceNotExistsError", NoMsg, << >>, << >>))
                ELSE pc' = "write_key" /\ UNCHANGED outcome
       \/ FireRaises(HttpError) /\ UNCHANGED request_instance_get
    /\ UNCHANGED <<inputVars, config, writerVars, zoneVars, shell,
                   instances, waitVars, key_file, body, instanceVars,
                   files, execVars, deleteArg, pending>>

\* compute.py:115-122 and keys.py:38-43: the key pair is generated and the
\* private key written under secrets/ (open() fails when the directory is
\* missing); the setMetadata body is built
WritePrivateKey ==
    /\ pc = "write_key"
    /\ \/ /\ key_file' = PrivateKeyPath(SecretsDir, job_name)
          /\ files' = files \cup {key_file'}
          /\ \E pub \in PublicKeys(DefaultUsername) :
                body' = MetadataBody(request_instance_get, DefaultUsername, pub)
          /\ pc' = "set_metadata"
          /\ UNCHANGED outcome
       \/ /\ FireRaises(Exc("FileNotFoundError", NoMsg, << >>, << >>))
          /\ UNCHANGED <<key_file, files, body>>
    /\ UNCHANGED <<inputVars, config, writerVars, zoneVars, shell,
                   instances, waitVars, request_instance_get, instanceVars,
                   execVars, calls, deleteArg, pending>>

\* compute.py:124-130: instances().setMetadata, then wait_for_response
SetMetadata ==
    /\ pc = "set_metadata"
    /\ calls' = Called("setMetadata")
    /\ \/ BeginWait("meta_wait") /\ UNCHANGED outcome
       \/ FireRaises(HttpError) /\ UNCHANGED <<result, nonTerminal, nGetOp, nPollSleep>>
    /\ UNCHANGED <<inputVars, config, writerVars, zoneVars, shell,
                   instances, waitReturn, request_instance_get, key_file,
                   body, instanceVars, files, execVars, deleteArg, pending>>

\* compute.py:130-135: the wait of add_ssh_keys; on its return the Instance
\* handle gets its address and key file, and fire enters the try block
WaitMetadata == WaitForResponse("meta_wait")

----------------------------------------------------------------------------
(* compute.py:186-193: the try block and its finally clause *)

\* compute.py:156 and 182: the Instance handle is named after the job
InstanceName == job_name

\* the finally clause running cleanup without asking for confirmation
TryEndsWithoutPause(out) ==
    /\ pending' = IF out.kind = "return" THEN Returned(out.value)
                  ELSE Raised(out.exc, NoExc)
    /\ pc' = "delete"

\* The try block ends with `out` (a return value or an exception, which line
\* 191 re-raises); the finally clause runs cleanup, which asks for
\* confirmation first when wait is set (compute.py:145-146)
TryEnds(out) ==
    /\ pending' = IF out.kind = "return" THEN Returned(out.value)
                  ELSE Raised(out.exc, NoExc)
    /\ pc' = IF wait THEN "confirm" ELSE "delete"

----------------------------------------------------------------------------
(* instance.py: remote_execute_script *)

\* the loop running one iteration more than max_retry
RetryBudgetOneMore == attempt <= max_retry

\* the loop running two iterations more than max_retry
RetryBudgetTwoMore == attempt <= max_retry + 1

\* instance.py:59: range(max_retry) has another element
RetryBudgetLeft == attempt < max_retry

\* instance.py:76-77: the loop's else clause. `err` is assigned only in the
\* except clause: with no iteration run, reading it raises UnboundLocalError.
LoopExhausted(e) ==
    IF e = NoExc
    THEN Exc("UnboundLocalError", NoMsg, << >>, << >>)
    ELSE Exc("RemoteExecutionError", e.message, << >>, e.stderror)

\* instance.py:59 and 76-77: the head of the for loop, `e` being the value of
\* `err` by now: the next iteration begins, or the else clause raises
LoopHead(e) ==
    IF RetryBudgetLeft
    THEN /\ attempt' = attempt + 1
         /\ pc' = "probe"
         /\ UNCHANGED pending
    ELSE /\ TryEnds(Raise(LoopExhausted(e)))
         /\ UNCHANGED attempt

\* instance.py:47
NoScriptMessage ==
    Msg("No script is given: prohibiting trivial remote code execution.", << >>)

\* instance.py:51
NoKeyMessage ==
    Msg("Need to add a ssh-keys to the Instance before code can be executed.", << >>)

\* instance.py:44-55: the preconditions, then the known-hosts purge
\* (ssh_client.py:30-33: Popen of ssh-keygen, which raises FileNotFoundError
\* when the program is not found and is otherwise left running, its result
\* unread), then the loop is entered. add_ssh_keys has returned: the body it
\* built is gone.
RemoteExecuteBegin ==
    /\ pc = "execute"
    /\ WaitFrameGone
    /\ body' = NoBody
    /\ IF external_ip = None
       THEN /\ TryEnds(Raise(Exc("AssertionError", NoMsg, << >>, << >>)))
            /\ UNCHANGED <<transport, attempt>>
       ELSE IF script_path = None
       THEN /\ TryEnds(Raise(Exc("ValueError", NoScriptMessage, << >>, << >>)))
            /\ UNCHANGED <<transport, attempt>>
       ELSE IF private_key_file = NonePath
       THEN /\ TryEnds(Raise(Exc("ValueError", NoKeyMessage, << >>, << >>)))
            /\ UNCHANGED <<transport, attempt>>
       ELSE /\ transport' = Ran("purge")
            /\ \/ LoopHead(err)
               \/ /\ TryEnds(Raise(Exc("FileNotFoundError", NoMsg, << >>, << >>)))
                  /\ UNCHANGED attempt
    /\ UNCHANGED <<inputVars, config, writerVars, zoneVars, shell,
                   instances, request_instance_get, key_file,
                   instanceVars, files, err, failures, sleptSeconds, script_stdout,
                   calls, deleteArg, outcome>>

\* the except clause sleeping only when another iteration follows
CatchShellErrorNoLastSleep(cmd, e) ==
    /\ err' = e
    /\ failures' = [failures EXCEPT ![cmd] = @ + 1]
    /\ sleptSeconds' = IF RetryBudgetLeft THEN sleptSeconds + retry_wait ELSE sleptSeconds
    /\ LoopHead(e)
    /\ UNCHANGED script_stdout

\* instance.py:71-75: a ShellExecutionError raised by command `cmd` is caught:
\* err = e, sleep retry_wait, continue
CatchShellError(cmd, e) ==
    /\ err' = e
    /\ failures' = [failures EXCEPT ![cmd] = @ + 1]
    /\ sleptSeconds' = sleptSeconds + retry_wait
    /\ LoopHead(e)
    /\ UNCHANGED script_stdout

\* instance.py:62, 66 and 70: the ssh_client function behind each command
RunCommand(cmd, proc) ==
    CASE cmd = "probe" -> test_connection(proc)
      [] cmd = "copy" -> ssh_copy_file(proc)
      [] cmd = "run" -> ssh_run_command(proc)

\* the execute following the probe, the copy left out
CommandReturnsSkipsCopy(cmd, v) ==
    CASE cmd = "probe" -> pc' = "run" /\ UNCHANGED <<pending, script_stdout>>
      [] cmd = "copy" -> pc' = "run" /\ UNCHANGED <<pending, script_stdout>>
      [] cmd = "run" -> script_stdout' = v /\ TryEnds(Return(v))

\* instance.py:62-70: command `cmd` returned v: the copy follows the probe,
\* the execute follows the copy, and the execute's stdout is returned
CommandReturns(cmd, v) ==
    CASE cmd = "probe" -> pc' = "copy" /\ UNCHANGED <<pending, script_stdout>>
      [] cmd = "copy" -> pc' = "run" /\ UNCHANGED <<pending, script_stdout>>
      [] cmd = "run" -> script_stdout' = v /\ TryEnds(Return(v))

\* instance.py:60-75: one command of an iteration. The subprocess produces
\* any output. A return goes on with the next command, a ShellExecutionError
\* is caught, any other exception leaves the try block.
Command(cmd) ==
    /\ pc = cmd
    /\ transport' = Ran(cmd)
    /\ \E proc \in ProcessOutputs :
          LET r == RunCommand(cmd, proc)
          IN IF r.kind = "return"
             THEN /\ CommandReturns(cmd, r.value)
                  /\ UNCHANGED <<attempt, err, failures, sleptSeconds>>
             ELSE IF IsShellExecutionError(r.exc)
             THEN CatchShellError(cmd, r.exc)
             ELSE /\ TryEnds(Raise(r.exc))
                  /\ UNCHANGED <<attempt, err, failures, sleptSeconds, script_stdout>>
    /\ UNCHANGED <<inputVars, config, writerVars, zoneVars, shell,
                   instances, waitVars, request_instance_get, key_file, body,
                   instanceVars, files, calls, deleteArg, outcome>>

\* instance.py:62
Probe == Command("probe")

\* instance.py:66
Copy == Command("copy")

\* instance.py:70
RunScript == Command("run")

----------------------------------------------------------------------------
(* compute.py:144-150: cleanup, run by the finally clause *)

\* cleanup raises e: it replaces what the try block left pending, which
\* Python keeps as the new exception's __context__
CleanupRaises(e) ==
    /\ pc' = "done"
    /\ outcome' = Raised(e, pending.exc)

\* cleanup goes on: the locals of the remote_execute_script call that ended,
\* and the counts kept of it, are gone
ExecFrameGone ==
    /\ attempt' = 0
    /\ err' = NoExc
    /\ transport' = NoCommands
    /\ failures' = NoFailures
    /\ sleptSeconds' = 0
    /\ script_stdout' = << >>

\* compute.py:146: input() returns once the confirmation is given, or raises
\* EOFError when standard input is at its end: cleanup ends there, before
\* the delete request
Confirm ==
    /\ pc = "confirm"
    /\ ExecFrameGone
    /\ calls' = Called("input")
    /\ \/ pc' = "delete" /\ UNCHANGED outcome
       \/ CleanupRaises(Exc("EOFError", Msg("EOF when reading a line", << >>), << >>, << >>))
    /\ UNCHANGED <<inputVars, config, writerVars, zoneVars, shell,
                   instances, waitVars, request_instance_get, key_file, body,
                   instanceVars, files, deleteArg, pending>>

\* compute.py:147-148 and 140-142: instances().delete, then wait_for_response
DeleteInstanceRequest ==
    /\ pc = "delete"
    /\ ExecFrameGone
    /\ calls' = Called("delete")
    /\ deleteArg' = InstanceName
    /\ \/ BeginWait("delete_wait") /\ UNCHANGED outcome
       \/ CleanupRaises(HttpError) /\ UNCHANGED <<result, nonTerminal, nGetOp, nPollSleep>>
    /\ UNCHANGED <<inputVars, config, writerVars, zoneVars, shell,
                   instances, waitReturn, request_instance_get, key_file,
                   body, instanceVars, files, pending>>

\* compute.py:148: the wait of cleanup
WaitDelete == WaitForResponse("delete_wait")

\* compute.py:150, instance.py:23-26 and keys.py:46-49: the key file is
\* removed if it is there (os.remove can fail) and the handle forgets it;
\* cleanup is over and fire ends with what the try block left
DeleteLocalKeyfile ==
    /\ pc = "erase"
    /\ WaitFrameGone
    /\ \/ /\ files' = IF private_key_file # NonePath THEN files \ {private_key_file}
                      ELSE files
          /\ private_key_file' = NonePath
          /\ pc' = "done"
          /\ outcome' = pending
       \/ /\ private_key_file # NonePath
          /\ private_key_file \in files
          /\ CleanupRaises(Exc("OSError", NoMsg, << >>, << >>))
          /\ UNCHANGED <<files, private_key_file>>
    /\ UNCHANGED <<inputVars, config, writerVars, zoneVars, shell,
                   instances, request_instance_get, key_file, body,
                   external_ip, execVars, calls, deleteArg, pending>>

----------------------------------------------------------------------------

Next ==
    \/ GetImageLink
    \/ CapCheck
    \/ CreateInstanceRequest
    \/ WaitCreate
    \/ ListAfterCreate
    \/ GetInstance
    \/ WritePrivateKey
    \/ SetMetadata
    \/ WaitMetadata
    \/ RemoteExecuteBegin
    \/ Probe
    \/ Copy
    \/ RunScript
    \/ Confirm
    \/ DeleteInstanceRequest
    \/ WaitDelete
    \/ DeleteLocalKeyfile

Spec == Init /\ [][Next]_vars

----------------------------------------------------------------------------
(* Properties *)

\* fire has ended
Terminated == pc = "done"

\* the try block of fire was entered and has ended: remote execution is over
ExecutionOver == pending.kind # "running"

\* remote_execute_script has just ended, its locals still in place
ExecEnded == ExecutionOver /\ pc = (IF wait THEN "confirm" ELSE "delete")

\* wait_for_response has just returned to its caller
WaitReturned == pc \in {"list_post", "execute", "erase"}

\* C1: a run of fire that reached remote execution issues deleteInstance
\* exactly once, for the instance named after the job, and not before remote
\* execution has ended, whether it returned or raised; if execution returned
\* and cleanup succeeded, fire returns that output.
C1_DeleteOnceAfterExecution ==
    /\ calls["delete"] > 0 => ExecutionOver
    /\ calls["delete"] <= 1
    /\ (Terminated /\ ExecutionOver) => (calls["delete"] = 1 /\ deleteArg = job_name)
    /\ (Terminated /\ pending.kind = "return" /\ outcome.kind # "raise") =>
           outcome = Returned(pending.value)

\* C2: when credential injection fails (add_ssh_keys was entered and the run
\* ended without reaching remote execution), deleteInstance has been issued.
C2_DeleteAfterFailedInjection ==
    (Terminated /\ calls["get"] > 0 /\ ~ExecutionOver) => calls["delete"] >= 1

\* C3: when fire has ended after writing a private-key file, that file is no
\* longer on local storage.
C3_KeyFileGoneAtEnd ==
    (Terminated /\ key_file # NonePath) => key_file \notin files

\* C4: if remote execution raised E, fire ends raising E, also when cleanup
\* failed.
C4_OriginalErrorSurfaces ==
    (Terminated /\ pending.kind = "raise") =>
        (outcome.kind = "raise" /\ outcome.exc = pending.exc)

\* C5: copy and execute are each attempted at most once, and after a failed
\* copy or execute no further command is run.
C5_NoRetryAfterProbeSucceeded ==
    /\ transport["copy"] <= 1
    /\ transport["run"] <= 1
    /\ (failures["copy"] + failures["run"] > 0) => pc \notin {"probe", "copy", "run"}

\* C6: when the listing before creation holds more instances than the cap,
\* fire ends with TooManyInstancesError, and createInstance, setMetadata and
\* deleteInstance are never called.
C6_OverCapNoMutation ==
    (calls["list"] = 1 /\ ~instances.isNone
        /\ Len(instances.items) > HARD_LIMIT_MAX_INSTANCES) =>
        /\ Terminated
        /\ outcome = Raised(Exc("TooManyInstancesError", NoMsg, << >>, << >>), NoExc)
        /\ calls["insert"] = 0
        /\ calls["setMetadata"] = 0
        /\ calls["delete"] = 0

\* C6 witness: the listing held 11 instances and fire ended
C6_Witness ==
    /\ Terminated
    /\ calls["list"] = 1
    /\ Len(instances.items) = HARD_LIMIT_MAX_INSTANCES + 1
    /\ outcome.exc.type = "TooManyInstancesError"

\* C7: when the probe failed k < max_retry times with a ShellExecutionError
\* and then succeeded, and no copy or execute failed, remote_execute_script
\* ran k+1 probes, slept k times retry_wait, ran one copy and one execute and
\* returned the execute's output.
C7_ProbeRetriesThenRuns ==
    (ExecEnded /\ transport["probe"] > failures["probe"]
        /\ failures["copy"] = 0 /\ failures["run"] = 0
        /\ pending.exc.type # "FileNotFoundError") =>
        /\ failures["probe"] < max_retry
        /\ transport["probe"] = failures["probe"] + 1
        /\ sleptSeconds = failures["probe"] * retry_wait
        /\ transport["copy"] = 1
        /\ transport["run"] = 1
        /\ pending = Returned(script_stdout)

\* C7 witness: max_retry = 3, two failed probes, then probe, copy and execute
C7_Witness ==
    /\ ExecEnded
    /\ max_retry = 3
    /\ failures = [NoFailures EXCEPT !["probe"] = 2]
    /\ transport["probe"] = 3
    /\ pending.kind = "return"
    /\ pending.value = <<OutLineB>>

\* C8: when remote_execute_script passed its preconditions and no probe
\* succeeded, it ran at most max_retry probes, no copy and no execute, and
\* raised RemoteExecutionError with the last probe's message and stderr.
C8_ExhaustionRaisesRemoteExecutionError ==
    (ExecEnded /\ transport["purge"] = 1 /\ transport["probe"] = failures["probe"]
        /\ pending.exc.type # "FileNotFoundError") =>
        /\ transport["probe"] <= max_retry
        /\ transport["copy"] = 0
        /\ transport["run"] = 0
        /\ pending.kind = "raise"
        /\ pending.exc = Exc("RemoteExecutionError", err.message, << >>, err.stderror)

\* C9: a wait_for_response that returned after the provider gave n
\* non-terminal responses made n+1 getOperation calls, slept n times, and
\* returned the last response, which is DONE without an error field.
C9_PollUntilDone ==
    WaitReturned =>
        /\ nGetOp = nonTerminal + 1
        /\ nPollSleep = nonTerminal
        /\ waitReturn = result
        /\ result.status = "DONE"
        /\ ~result.error.present

\* C9 witness: two non-terminal responses, then DONE
C9_Witness ==
    /\ WaitReturned
    /\ nonTerminal = 2
    /\ nGetOp = 3
    /\ waitReturn.status = "DONE"

\* C10: on a terminal response with errors, one error with the exhaustion
\* code raises NoResourcesError; one error with another code raises Exception
\* with that error's message; two or more errors raise Exception carrying
\* the error list; NoResourcesError is raised in the first case only.
C10_ErrorClassification ==
    (Terminated /\ result.status = "DONE" /\ result.error.present
        /\ Len(result.error.errors) >= 1) =>
        LET errors == result.error.errors
            exhausted == errors[1].code = "ZONE_RESOURCE_POOL_EXHAUSTED"
        IN /\ (Len(errors) = 1 /\ exhausted) =>
                  outcome.exc = Exc("NoResourcesError", Msg(errors[1].message, << >>),
                                    << >>, << >>)
           /\ (Len(errors) = 1 /\ ~exhausted) =>
                  outcome.exc = Exc("Exception", Msg(errors[1].message, << >>),
                                    << >>, << >>)
           /\ Len(errors) >= 2 =>
                  outcome.exc = Exc("Exception", NoMsg, errors, << >>)
           /\ outcome.exc.type = "NoResourcesError" => (Len(errors) = 1 /\ exhausted)

\* C10 witness: two errors, the first with the exhaustion code
C10_Witness ==
    /\ Terminated
    /\ result.status = "DONE"
    /\ result.error.present
    /\ Len(result.error.errors) = 2
    /\ result.error.errors[1].code = "ZONE_RESOURCE_POOL_EXHAUSTED"
    /\ outcome.exc.type = "Exception"

----------------------------------------------------------------------------
(* add_ssh_keys on any fetched instance: the workflow is taken up where the
   instance has been fetched, with every item list the metadata can hold *)

MergeInit ==
    /\ pc = "write_key"
    /\ job_name \in JobNames
    /\ script_path = "run.sh"
    /\ wait = FALSE
    /\ max_retry = MaxRetry
    /\ retry_wait = 1
    /\ api = TheApi
    /\ builder = Builder(job_name, "n1-standard-4", << >>, SomeList(<< >>), None)
    /\ config = Build(api.project, api.zone, builder, << >>)
    /\ instances = SomeList(<< >>)
    /\ result = NoResponse
    /\ waitReturn = NoResponse
    /\ nonTerminal = 0
    /\ nGetOp = 0
    /\ nPollSleep = 0
    /\ \E fingerprint \in {"fp1", "fp2"}, items \in ItemLists(MaxItems) :
          request_instance_get = Fetched(fingerprint, items)
    /\ key_file = NonePath
    /\ body = NoBody
    /\ external_ip = None
    /\ private_key_file = NonePath
    /\ files = {}
    /\ attempt = 0
    /\ err = NoExc
    /\ transport = NoCommands
    /\ failures = NoFailures
    /\ sleptSeconds = 0
    /\ script_stdout = << >>
    /\ calls = [NoCalls EXCEPT !["getFromFamily"] = 1, !["list"] = 2,
                               !["insert"] = 1, !["get"] = 1]
    /\ deleteArg = None
    /\ pending = Running
    /\ outcome = Running
    /\ Alone

MergeNext == WritePrivateKey

SpecMerge == MergeInit /\ [][MergeNext]_vars

\* the ssh-keys items of an item list
SshItemsOf(items) == SelectSeq(items, LAMBDA item : item.key = "ssh-keys")

\* the key entries an item list held: the segments of the value of each of
\* its ssh-keys items, in the order of the items
RECURSIVE PreviousEntries(_)
PreviousEntries(items) ==
    IF items = << >> THEN << >>
    ELSE (IF Head(items).key = "ssh-keys" THEN Split(Head(items).value) ELSE << >>)
         \o PreviousEntries(Tail(items))

\* C11: the item list add_ssh_keys submits holds every non-ssh-keys item of
\* the fetched instance once, unchanged and in the same relative order, and
\* one ssh-keys item whose newline-separated value is the previous entries in
\* their order followed by the new username:publicKey entry (the new entry
\* alone when the instance had no ssh-keys item).
C11_MergeKeepsItems ==
    pc = "set_metadata" =>
        /\ SelectSeq(body.items, LAMBDA item : item.key # "ssh-keys")
              = SelectSeq(request_instance_get.items, LAMBDA item : item.key # "ssh-keys")
        /\ Len(SshItemsOf(body.items)) = 1
        /\ \E pub \in PublicKeys(DefaultUsername) :
              Split(SshItemsOf(body.items)[1].value)
                = PreviousEntries(request_instance_get.items)
                  \o << <<DefaultUsername, ":">> \o pub >>

C11_Witness ==
    /\ pc = "set_metadata"
    /\ Len(request_instance_get.items) = MaxItems
    /\ request_instance_get.items[2] = Item("ssh-keys", <<KeyAlice, Newline, KeyBob>>)
    /\ Len(Split(SshItemsOf(body.items)[1].value)) = 3

----------------------------------------------------------------------------
(* Several add_ssh_keys runs on one instance. The provider accepts a
   setMetadata whose fingerprint is the current one, and every accepted write
   changes the fingerprint. *)

\* compute.py:99-103: instances().get answers with the metadata as it
\* stands, or the call raises
WriterGet(w) ==
    /\ writers[w].pc = "get"
    /\ \/ writers' = [writers EXCEPT ![w].pc = "build",
                                     ![w].fetched = Fetched(FingerprintAt(server.version),
                                                            server.items)]
       \/ writers' = [writers EXCEPT ![w].pc = "get_failed"]
    /\ UNCHANGED <<server, accepted, fireVars, zoneVars, shell>>

\* compute.py:106-122 and keys.py:38-43: the merge, the key pair, the private
\* key written to the file named after the instance (every writer of one
\* instance writes the same file; open() fails when the directory is
\* missing) and the body
WriterBuild(w) ==
    /\ writers[w].pc = "build"
    /\ \/ /\ files' = files \cup {PrivateKeyPath(SecretsDir, job_name)}
          /\ writers' = [writers EXCEPT
                           ![w].pc = "set_metadata",
                           ![w].body = MetadataBody(writers[w].fetched, DefaultUsername,
                                           WriterPublicKey(w, DefaultUsername))]
       \/ /\ writers' = [writers EXCEPT ![w].pc = "write_failed"]
          /\ UNCHANGED files
    /\ UNCHANGED <<server, accepted, zoneVars, shell,
                   pc, inputVars, config, instances, waitVars, request_instance_get,
                   key_file, body, instanceVars, execVars, calls, deleteArg, pending,
                   outcome>>

\* compute.py:125-129: instances().setMetadata(...).execute() returns: the
\* provider has taken the body as the instance's metadata, and the writer
\* enters wait_for_response
WriterAccepted(w) ==
    /\ writers[w].pc = "set_metadata"
    /\ writers[w].body.fingerprint = FingerprintAt(server.version)
    /\ server' = [items |-> writers[w].body.items, version |-> server.version + 1]
    /\ accepted' = accepted \cup {writers[w].body}
    /\ writers' = [writers EXCEPT ![w].pc = "meta_wait", ![w].nonTerminal = 0]
    /\ UNCHANGED <<fireVars, zoneVars, shell>>

\* compute.py:125-129: instances().setMetadata(...).execute() raises, as it
\* does on a stale fingerprint and can do on a current one; the metadata is
\* left as it was and add_ssh_keys raises
WriterRejected(w) ==
    /\ writers[w].pc = "set_metadata"
    /\ writers' = [writers EXCEPT ![w].pc = "raised"]
    /\ UNCHANGED <<server, accepted, fireVars, zoneVars, shell>>

\* compute.py:130-135 and 60-80: one iteration of the writer's
\* wait_for_response. A non-terminal response (at most MaxPolls per wait) is
\* slept on; on a returned response add_ssh_keys sets the writer's handle and
\* returns; when the loop or the poll itself raises, add_ssh_keys raises, the
\* handle unset and the metadata as the provider took it.
WriterPoll(w) ==
    /\ writers[w].pc = "meta_wait"
    /\ \/ \E response \in OpResponses :
             /\ response.status # "DONE" => writers[w].nonTerminal < MaxPolls
             /\ LET iteration == WaitIteration(response)
                IN writers' =
                     CASE iteration.kind = "sleep" ->
                            [writers EXCEPT ![w].nonTerminal = @ + 1]
                       [] iteration.kind = "return" ->
                            [writers EXCEPT
                               ![w].pc = "returned",
                               ![w].external_ip = writers[w].fetched.natIP,
                               ![w].private_key_file =
                                   PrivateKeyPath(SecretsDir, job_name)]
                       [] iteration.kind = "raise" ->
                            [writers EXCEPT ![w].pc = "raised"]
       \/ writers' = [writers EXCEPT ![w].pc = "raised"]
    /\ UNCHANGED <<server, accepted, fireVars, zoneVars, shell>>

WritersInit ==
    /\ OneJob
    /\ NotStarted
    /\ server \in [items : ItemLists(1)
                             \cup {<<Item("ssh-keys", <<KeyAlice>>),
                                     Item("serial-port-enable", <<"False">>)>>,
                                   <<Item("project_id", <<"main-composite">>),
                                     Item("ssh-keys", <<KeyAlice, Newline, KeyBob>>)>>},
                     version : {1}]
    /\ writers = [w \in Writers |-> [NoWriters[w] EXCEPT !.pc = "get"]]
    /\ accepted = {}
    /\ zone = 0
    /\ fires = NoFires
    /\ shell = NoShell

WritersNext ==
    \E w \in Writers :
        \/ WriterGet(w)
        \/ WriterBuild(w)
        \/ WriterAccepted(w)
        \/ WriterRejected(w)
        \/ WriterPoll(w)

SpecWriters == WritersInit /\ [][WritersNext]_vars

\* the key entries of an item list
EntriesOf(items) ==
    LET entries == PreviousEntries(items) IN {entries[i] : i \in 1 .. Len(entries)}

\* the items of an item list
ItemsOf(items) == {items[i] : i \in 1 .. Len(items)}

\* C12: with several writers running add_ssh_keys on one instance, every
\* submitted update carries the fingerprint its writer's own getInstance
\* read, and no ssh-keys entry and no other metadata item of an accepted
\* update is ever missing from the instance's metadata afterwards.
C12_NoLostUpdate ==
    /\ \A w \in Writers :
          writers[w].pc \in {"set_metadata", "meta_wait", "returned", "raised"} =>
              writers[w].body.fingerprint = writers[w].fetched.fingerprint
    /\ \A update \in accepted :
          /\ EntriesOf(update.items) \subseteq EntriesOf(server.items)
          /\ ItemsOf(OtherItemsOf(update.items)) \subseteq ItemsOf(server.items)

C12_Witness ==
    \E w, v \in Writers :
        /\ writers[w].pc = "returned"
        /\ writers[v].pc = "raised"
        /\ writers[v].body \notin accepted
        /\ writers[v].fetched.fingerprint = writers[w].fetched.fingerprint
        /\ KeyEntry(DefaultUsername, WriterPublicKey(w, DefaultUsername))
              \in EntriesOf(server.items)

----------------------------------------------------------------------------
(* Several fire invocations in one project and zone, each with a job name of
   its own, up to the instance's creation *)

\* compute.py:165: the listing of the zone as it stands, or the call raises
FireList(o) ==
    /\ fires[o].pc = "list"
    /\ \/ fires' = [fires EXCEPT
                      ![o].pc = "check",
                      ![o].instances =
                          list_instances([hasItems |-> zone > 0,
                                          items |-> [i \in 1 .. zone |-> [name |-> "vm"]]])]
       \/ fires' = [fires EXCEPT ![o].pc = "raised"]
    /\ UNCHANGED <<zone, fireVars, writerVars, shell>>

\* compute.py:166-167: the cap check on the listing read
FireCapCheck(o) ==
    /\ fires[o].pc = "check"
    /\ fires' = [fires EXCEPT ![o].pc = IF TooMany(fires[o].instances)
                                        THEN "raised" ELSE "create"]
    /\ UNCHANGED <<zone, fireVars, writerVars, shell>>

\* compute.py:172 and 51-57: create_instance builds the config and
\* instances().insert(...).execute() returns: the zone holds the instance
\* from then on, and the invocation enters wait_for_response; or the build or
\* the request raises and the zone is as it was
FireCreate(o) ==
    /\ fires[o].pc = "create"
    /\ \/ /\ zone' = zone + 1
          /\ fires' = [fires EXCEPT ![o].pc = "create_wait", ![o].inserted = TRUE,
                                    ![o].nonTerminal = 0]
       \/ /\ fires' = [fires EXCEPT ![o].pc = "raised"]
          /\ UNCHANGED zone
    /\ UNCHANGED <<fireVars, writerVars, shell>>

\* compute.py:58 and 60-80: one iteration of the invocation's
\* wait_for_response. A non-terminal response (at most MaxPolls per wait) is
\* slept on; on a returned response create_instance returns; when the loop
\* or the poll itself raises, fire ends, the instance left in the zone.
FirePoll(o) ==
    /\ fires[o].pc = "create_wait"
    /\ \/ \E response \in OpResponses :
             /\ response.status # "DONE" => fires[o].nonTerminal < MaxPolls
             /\ LET iteration == WaitIteration(response)
                IN fires' =
                     CASE iteration.kind = "sleep" ->
                            [fires EXCEPT ![o].nonTerminal = @ + 1]
                       [] iteration.kind = "return" ->
                            [fires EXCEPT ![o].pc = "created"]
                       [] iteration.kind = "raise" ->
                            [fires EXCEPT ![o].pc = "raised"]
       \/ fires' = [fires EXCEPT ![o].pc = "raised"]
    /\ UNCHANGED <<zone, fireVars, writerVars, shell>>

FiresInit ==
    /\ OneJob
    /\ NotStarted
    /\ server = [items |-> << >>, version |-> 1]
    /\ writers = NoWriters
    /\ accepted = {}
    /\ zone \in 0 .. (HARD_LIMIT_MAX_INSTANCES + MaxOver)
    /\ fires = [o \in Fires |-> [NoFires[o] EXCEPT !.pc = "list"]]
    /\ shell = NoShell

FiresNext ==
    \E o \in Fires :
        \/ FireList(o)
        \/ FireCapCheck(o)
        \/ FireCreate(o)
        \/ FirePoll(o)

SpecFires == FiresInit /\ [][FiresNext]_vars

\* the invocations whose insert request was taken
Inserted == {o \in Fires : fires[o].inserted}

\* the invocations that created their instance: create_instance returned
Created == {o \in Fires : fires[o].pc = "created"}

\* C13: the cap check is a read followed by an act. Every invocation that
\* creates an instance read a listing within the cap, and the instances of
\* the zone exceed the cap by no more than the number of invocations that
\* created one; with two invocations interleaved both pass the check and the
\* zone holds more instances than one invocation passing the check can
\* bring about (the witness).
C13_CapJointlyExceeded ==
    /\ \A o \in Fires :
          (fires[o].pc = "create" \/ fires[o].inserted) =>
              \/ fires[o].instances.isNone
              \/ Len(fires[o].instances.items) <= HARD_LIMIT_MAX_INSTANCES
    /\ Created \subseteq Inserted
    /\ Inserted # {} => zone <= HARD_LIMIT_MAX_INSTANCES + Cardinality(Inserted)

C13_Witness ==
    /\ \E o, q \in Created : o # q
    /\ zone > HARD_LIMIT_MAX_INSTANCES + 1

----------------------------------------------------------------------------
(* fire alone: the stages after the create request *)

\* a provider call itself failed: the last thing fire did
ProviderCallFailed == outcome.kind = "raise" /\ outcome.exc = HttpError

\* C14: once the create operation has completed and the re-listing has
\* reported no instances at all, fire has ended with NoInstancesError, and
\* no getInstance, setMetadata, key generation, probe, copy or execution
\* has happened or happens.
C14_NoInstancesEndsFire ==
    (calls["list"] = 2 /\ instances.isNone /\ ~ProviderCallFailed) =>
        /\ Terminated
        /\ outcome = Raised(Exc("NoInstancesError", NoMsg, << >>, << >>), NoExc)
        /\ calls["get"] = 0
        /\ calls["setMetadata"] = 0
        /\ key_file = NonePath /\ files = {} /\ body = NoBody
        /\ transport = NoCommands /\ attempt = 0

C14_Witness ==
    /\ calls["insert"] = 1
    /\ calls["list"] = 2
    /\ instances.isNone
    /\ outcome.kind = "raise"
    /\ outcome.exc.type = "NoInstancesError"

\* C15: once getInstance has reported no such instance, add_ssh_keys has
\* raised InstanceNotExistsError: no key pair was generated or written, no
\* setMetadata was issued, and the handle's external_ip and private_key_file
\* are still absent.
C15_MissingInstanceEndsInjection ==
    (calls["get"] = 1 /\ ~request_instance_get.found /\ ~ProviderCallFailed) =>
        /\ Terminated
        /\ outcome = Raised(Exc("InstanceNotExistsError", NoMsg, << >>, << >>), NoExc)
        /\ key_file = NonePath /\ files = {} /\ body = NoBody
        /\ calls["setMetadata"] = 0
        /\ external_ip = None
        /\ private_key_file = NonePath

C15_Witness ==
    /\ calls["get"] = 1
    /\ ~request_instance_get.found
    /\ outcome.kind = "raise"
    /\ outcome.exc.type = "InstanceNotExistsError"

\* C16: with wait set, deleteInstance is not issued before the confirmation
\* has been received (cleanup stands at the prompt until then) and the
\* confirmation is asked for only once remote execution has ended; with wait
\* not set, cleanup never asks and goes straight to deleteInstance.
C16_ConfirmBeforeDelete ==
    /\ wait => /\ calls["delete"] > 0 => calls["input"] = 1
               /\ pc = "confirm" => (ExecutionOver /\ calls["delete"] = 0)
               /\ calls["input"] > 0 => ExecutionOver
               /\ ExecutionOver => pc \in {"confirm", "delete", "delete_wait", "erase", "done"}
    /\ ~wait => /\ calls["input"] = 0
                /\ pc # "confirm"
                /\ ExecutionOver => pc \in {"delete", "delete_wait", "erase", "done"}

C16_Witness ==
    /\ wait
    /\ Terminated
    /\ calls["input"] = 1
    /\ calls["delete"] = 1
    /\ pending.kind = "return"

----------------------------------------------------------------------------
(* create_instance for any job: fire is taken up where the cap check has
   passed, with every builder and every project and zone *)

BuildInit ==
    /\ pc = "insert"
    /\ job_name \in JobNames
    /\ script_path = "run.sh"
    /\ wait = FALSE
    /\ max_retry = MaxRetry
    /\ retry_wait = 1
    /\ api \in [project : {"main-composite", "p2"}, zone : {"europe-west4-b", "us-east1-c"}]
    /\ \E machine_type \in {"n1-standard-4", "e2-small"},
          gpus \in AcceleratorMappings(MaxAccelerators),
          additional_meta \in {NoneList, SomeList(<<Item("project_id", <<"p2">>)>>)},
          startup_script_path \in {None, "startup.sh"} :
          builder = Builder(job_name, machine_type, gpus, additional_meta, startup_script_path)
    /\ config = NoConfig
    /\ instances = NoneList
    /\ result = NoResponse
    /\ waitReturn = NoResponse
    /\ nonTerminal = 0
    /\ nGetOp = 0
    /\ nPollSleep = 0
    /\ request_instance_get = NoInstanceResponse
    /\ key_file = NonePath
    /\ body = NoBody
    /\ external_ip = None
    /\ private_key_file = NonePath
    /\ files = {}
    /\ attempt = 0
    /\ err = NoExc
    /\ transport = NoCommands
    /\ failures = NoFailures
    /\ sleptSeconds = 0
    /\ script_stdout = << >>
    /\ calls = [NoCalls EXCEPT !["getFromFamily"] = 1, !["list"] = 1]
    /\ deleteArg = None
    /\ pending = Running
    /\ outcome = Running
    /\ Alone

BuildNext == CreateInstanceRequest

SpecBuild == BuildInit /\ [][BuildNext]_vars

\* C17: the config build produces has one guestAccelerators entry for each
\* entry of the accelerator mapping (none for the empty mapping), each with
\* the mapped count and the type
\* projects/<project>/zones/<zone>/acceleratorTypes/<label>, and the machine
\* type zones/<zone>/machineTypes/<type>.
C17_BuildAccelerators ==
    config.built =>
        /\ Len(config.guestAccelerators) = Len(builder.gpus)
        /\ \A i \in 1 .. Len(builder.gpus) :
              /\ config.guestAccelerators[i].acceleratorCount = builder.gpus[i].count
              /\ config.guestAccelerators[i].acceleratorType
                    = <<"projects/", api.project, "/zones/", api.zone, "/acceleratorTypes/",
                        builder.gpus[i].label>>
        /\ config.machineType = <<"zones/", api.zone, "/machineTypes/", builder.machine_type>>

C17_Witness ==
    /\ config.built
    /\ calls["insert"] = 1
    /\ Len(config.guestAccelerators) = MaxAccelerators
    /\ config.guestAccelerators[1].acceleratorCount # config.guestAccelerators[2].acceleratorCount

----------------------------------------------------------------------------
(* fire alone: cleanup, the order of the stages, and retries *)

\* the create operation's poller has raised for a terminal response with an
\* error field
CreateOperationFailed ==
    /\ calls["insert"] = 1
    /\ calls["list"] = 1
    /\ result.status = "DONE"
    /\ result.error.present

\* C18: a run of fire that submitted the create request and has ended has
\* issued deleteInstance for the instance name, also when the create
\* operation ended with an error or the re-listing reported no instances.
C18_CleanupAfterCreate ==
    (/\ Terminated
     /\ \/ CreateOperationFailed
        \/ calls["list"] = 2 /\ instances.isNone /\ ~ProviderCallFailed) =>
        (calls["delete"] = 1 /\ deleteArg = InstanceName)

\* the last wait_for_response returned a terminal response without an error
ObservedDone == waitReturn.status = "DONE" /\ ~waitReturn.error.present

\* C19: the stages of fire come in one order, each begun once the one before
\* is completed: image resolution, listing and cap check, createInstance,
\* create operation DONE without error, re-listing, getInstance, setMetadata,
\* metadata operation DONE without error, remote execution, deleteInstance,
\* delete operation DONE, erasure of the key file.
C19_StageOrder ==
    [][/\ calls'["getFromFamily"] # calls["getFromFamily"] => calls = NoCalls
       /\ calls'["list"] # calls["list"] =>
             /\ calls["getFromFamily"] = 1
             /\ calls["list"] = calls["insert"]
             /\ calls["list"] <= 1
             /\ calls["list"] = 1 => (pc = "list_post" /\ ObservedDone)
       /\ calls'["insert"] # calls["insert"] =>
             /\ calls["insert"] = 0 /\ calls["list"] = 1 /\ calls["get"] = 0
       /\ calls'["get"] # calls["get"] =>
             /\ calls["get"] = 0 /\ calls["list"] = 2 /\ calls["setMetadata"] = 0
       /\ calls'["setMetadata"] # calls["setMetadata"] =>
             /\ calls["setMetadata"] = 0 /\ calls["get"] = 1 /\ transport = NoCommands
             /\ calls["delete"] = 0
       /\ transport' # transport /\ transport' # NoCommands =>
             /\ calls["setMetadata"] = 1 /\ calls["delete"] = 0 /\ calls["input"] = 0
             /\ external_ip # None
             /\ transport = NoCommands => (pc = "execute" /\ ObservedDone)
       /\ calls'["delete"] # calls["delete"] =>
             /\ calls["delete"] = 0 /\ ExecutionOver /\ files = files'
       /\ files' # files /\ calls["delete"] > 0 =>
             /\ calls["delete"] = 1 /\ pc = "erase" /\ ObservedDone
      ]_vars

C19_Witness ==
    /\ Terminated
    /\ outcome.kind = "return"
    /\ calls = [NoCalls EXCEPT !["getFromFamily"] = 1, !["list"] = 2, !["insert"] = 1,
                               !["get"] = 1, !["setMetadata"] = 1, !["delete"] = 1]
    /\ files = {}

\* C20: createInstance, setMetadata and deleteInstance are each issued at
\* most once in a run of fire, and an error raised by the poller of the
\* create operation ends fire with that error (NoResourcesError for the one
\* resource-exhausted error, Exception otherwise): no second createInstance,
\* no credential injection, no remote execution.
C20_NoProviderRetry ==
    /\ calls["insert"] <= 1
    /\ calls["setMetadata"] <= 1
    /\ calls["delete"] <= 1
    /\ CreateOperationFailed =>
          /\ Terminated
          /\ outcome.kind = "raise"
          /\ outcome.exc.type =
                IF /\ Len(result.error.errors) = 1
                   /\ result.error.errors[1].code = "ZONE_RESOURCE_POOL_EXHAUSTED"
                THEN "NoResourcesError" ELSE "Exception"
          /\ calls["get"] = 0
          /\ key_file = NonePath /\ files = {}
          /\ transport = NoCommands /\ attempt = 0

C20_Witness ==
    /\ CreateOperationFailed
    /\ Terminated
    /\ outcome.exc.type = "NoResourcesError"

----------------------------------------------------------------------------
(* update_external_ip, which fire does not call (compute.py:183 is commented
   out): a caller of the class refreshes the address of a handle it holds *)

\* compute.py:86-95: instances().get, and the handle's address is set from
\* the answer (left alone when the answer is None); the key file is not touched
UpdateExternalIp ==
    /\ pc = "update_ip"
    /\ calls' = Called("get")
    /\ \/ \E response \in InstanceResponses, natIP \in {"34.0.0.1", "34.0.0.2"} :
             /\ request_instance_get' =
                    IF response.found THEN [response EXCEPT !.natIP = natIP] ELSE response
             /\ external_ip' = IF response.found THEN natIP ELSE external_ip
             /\ pc' = "done"
             /\ UNCHANGED outcome
       \/ FireRaises(HttpError) /\ UNCHANGED <<request_instance_get, external_ip>>
    /\ UNCHANGED <<inputVars, config, writerVars, zoneVars, shell,
                   instances, waitVars, key_file, body, private_key_file,
                   files, execVars, deleteArg, pending>>

\* a fresh handle, or one as add_ssh_keys left it
HandleInit ==
    /\ pc = "update_ip"
    /\ OneJob
    /\ config = NoConfig
    /\ instances = NoneList
    /\ result = NoResponse
    /\ waitReturn = NoResponse
    /\ nonTerminal = 0
    /\ nGetOp = 0
    /\ nPollSleep = 0
    /\ request_instance_get = NoInstanceResponse
    /\ key_file = NonePath
    /\ body = NoBody
    /\ \/ /\ external_ip = None
          /\ private_key_file = NonePath
          /\ files = {}
       \/ /\ external_ip = "34.0.0.1"
          /\ private_key_file = PrivateKeyPath(SecretsDir, job_name)
          /\ files = {private_key_file}
    /\ attempt = 0
    /\ err = NoExc
    /\ transport = NoCommands
    /\ failures = NoFailures
    /\ sleptSeconds = 0
    /\ script_stdout = << >>
    /\ calls = NoCalls
    /\ deleteArg = None
    /\ pending = Running
    /\ outcome = Running
    /\ Alone

HandleNext == UpdateExternalIp

SpecHandle == HandleInit /\ [][HandleNext]_vars

----------------------------------------------------------------------------
(* remote_execute_script called on any handle: the ip, the key path and the
   script path are any values of their types, the empty string among them *)

ExecInit ==
    /\ pc = "execute"
    /\ job_name = "t1"
    /\ script_path \in ScriptPaths \cup {""}
    /\ wait = FALSE
    /\ max_retry \in 0 .. MaxRetry
    /\ retry_wait \in {1, 5}
    /\ api = TheApi
    /\ builder = Builder(job_name, "n1-standard-4", << >>, SomeList(<< >>), None)
    /\ config = Build(api.project, api.zone, builder, << >>)
    /\ instances = SomeList(<< >>)
    /\ result = NoResponse
    /\ waitReturn = NoResponse
    /\ nonTerminal = 0
    /\ nGetOp = 0
    /\ nPollSleep = 0
    /\ request_instance_get = NoInstanceResponse
    /\ key_file = NonePath
    /\ body = NoBody
    /\ external_ip \in {None, "34.0.0.1"}
    /\ private_key_file \in {NonePath, PrivateKeyPath(SecretsDir, job_name)}
    /\ files = {private_key_file} \ {NonePath}
    /\ attempt = 0
    /\ err = NoExc
    /\ transport = NoCommands
    /\ failures = NoFailures
    /\ sleptSeconds = 0
    /\ script_stdout = << >>
    /\ calls = NoCalls
    /\ deleteArg = None
    /\ pending = Running
    /\ outcome = Running
    /\ Alone

ExecNext ==
    \/ RemoteExecuteBegin
    \/ Probe
    \/ Copy
    \/ RunScript

SpecExec == ExecInit /\ [][ExecNext]_vars

\* C21: RemoteExecutionError is raised only in runs of remote_execute_script
\* in which no probe succeeded: a copy or execute failure after a successful
\* probe reaches the caller as another kind of error.
C21_ExhaustionOnlyWithoutProbeSuccess ==
    (ExecEnded /\ pending.kind = "raise" /\ pending.exc.type = "RemoteExecutionError") =>
        transport["probe"] = failures["probe"]

\* C22: remote_execute_script has issued a transport operation (purge,
\* probe, copy, execute) only if the external ip and the key path are set and
\* the script path is not empty.
C22_NoTransportWithoutPreconditions ==
    transport # NoCommands =>
        /\ external_ip # None
        /\ private_key_file # NonePath
        /\ script_path \notin {None, ""}

\* C23: the known-hosts purge is issued once, before the first probe and
\* whatever follows; a copy is issued only right after a probe that
\* succeeded, an execute only right after a copy that succeeded.
C23_TransportOrder ==
    [][/\ transport'["purge"] > transport["purge"] => transport = NoCommands
       /\ transport' # NoCommands => transport'["purge"] = 1
       /\ transport'["probe"] > transport["probe"] => transport["purge"] = 1
       /\ transport'["copy"] > transport["copy"] =>
             /\ pc = "copy"
             /\ transport["probe"] - failures["probe"] = transport["copy"] + 1
       /\ transport'["run"] > transport["run"] =>
             /\ pc = "run"
             /\ transport["copy"] - failures["copy"] = transport["run"] + 1
       /\ pc = "copy" => transport'["copy"] > transport["copy"]
       /\ pc = "run" => transport'["run"] > transport["run"]
      ]_vars

C23_Witness ==
    /\ ExecEnded
    /\ transport = [purge |-> 1, probe |-> 2, copy |-> 2, run |-> 1]
    /\ failures = [NoFailures EXCEPT !["copy"] = 1]
    /\ pending.kind = "return"

----------------------------------------------------------------------------
(* fire alone: the cap, the handle, cleanup *)

\* the listing before creation has returned and is what `instances` holds
FirstListing == calls["list"] = 1 /\ ~(calls["insert"] = 0 /\ ProviderCallFailed)

\* C24: fire raises TooManyInstancesError exactly when the listing before
\* creation holds more than 10 instances; a listing of 10 instances or one
\* that reports none passes, and fire goes on to create_instance.
C24_CapIsTen ==
    /\ FirstListing =>
          /\ (outcome.kind = "raise" /\ outcome.exc.type = "TooManyInstancesError")
                <=> (~instances.isNone /\ Len(instances.items) > 10)
          /\ (instances.isNone \/ Len(instances.items) <= 10) =>
                \/ pc \in {"insert", "create_wait", "list_post"}
                \/ calls["insert"] = 1
                \/ Terminated /\ outcome.exc.type \in {"TypeError", "FileNotFoundError"}
    /\ (outcome.kind = "raise" /\ outcome.exc.type = "TooManyInstancesError") =>
          (Terminated /\ calls["list"] = 1 /\ calls["insert"] = 0 /\ ~config.built)

C24_Witness ==
    /\ FirstListing
    /\ ~instances.isNone
    /\ Len(instances.items) = 10
    /\ calls["insert"] = 1
    /\ pc = "create_wait"

\* fire is one thread of straight-line code: while it has not ended and its
\* calls return, its next step is taken. The provider answers each wait with
\* at most MaxPolls non-terminal responses, and the confirmation is given.
FairSpec == Spec /\ WF_vars(Next)

\* C25: with every awaited operation reporting DONE in the end, every call
\* returning and the confirmation given, fire ends; the retry loop never
\* begins more than max_retry iterations; and wait_for_response, given a
\* non-terminal response, sleeps one second and polls again, however many
\* it was given before.
C25_Termination ==
    /\ <>Terminated
    /\ [](attempt <= max_retry)
    /\ [][(/\ pc \in {"create_wait", "meta_wait", "delete_wait"}
           /\ nGetOp' = nGetOp + 1
           /\ nonTerminal' = nonTerminal + 1) =>
             (/\ pc' = pc
              /\ result'.status # "DONE"
              /\ nPollSleep' = nPollSleep + 1
              /\ nPollSleep' = nonTerminal'
              /\ outcome' = outcome)]_vars

C25_Witness ==
    /\ Terminated
    /\ max_retry = MaxRetry
    /\ outcome.kind = "raise"
    /\ outcome.exc.type = "RemoteExecutionError"
    /\ calls["delete"] = 1
    /\ files = {}

\* C26: the handle's address and key file are absent until the setMetadata
\* operation of this run was observed DONE without error; add_ssh_keys then
\* sets both in one step; the key file is absent again once cleanup has
\* completed, and nothing else changes either field.
C26_HandleFields ==
    /\ [](private_key_file # NonePath => external_ip # None)
    /\ [](external_ip # None => calls["get"] = 1 /\ calls["setMetadata"] = 1)
    /\ []((Terminated /\ ExecutionOver /\ outcome = pending) =>
             private_key_file = NonePath)
    /\ [][(external_ip' # external_ip \/ private_key_file' # private_key_file) =>
             \/ /\ pc = "meta_wait"
                /\ external_ip = None
                /\ private_key_file = NonePath
                /\ result'.status = "DONE"
                /\ ~result'.error.present
                /\ waitReturn' = result'
                /\ external_ip' # None
                /\ private_key_file' # NonePath
                /\ private_key_file' = key_file
                /\ pc' = "execute"
             \/ /\ pc = "erase"
                /\ external_ip' = external_ip
                /\ private_key_file' = NonePath
                /\ pc' = "done"
                /\ outcome' = pending]_vars

C26_Witness ==
    /\ Terminated
    /\ ExecutionOver
    /\ outcome = pending
    /\ external_ip # None
    /\ private_key_file = NonePath
    /\ calls["setMetadata"] = 1

----------------------------------------------------------------------------
(* ssh_client.py: invoke_line on its own *)

\* what the subprocess of one invoke_line call can write: up to n lines on
\* each stream, or nothing when the executable is not found
InvokeInputs(n) ==
    [installed : {TRUE},
     stdout : SeqsUpTo({OutLineA, OutLineB}, n),
     stderr : SeqsUpTo({WarnLine, ErrLine, DeniedLine}, n)]
    \cup {[installed |-> FALSE, stdout |-> << >>, stderr |-> << >>]}

InvokeInit ==
    /\ OneJob
    /\ NotStarted
    /\ server = [items |-> << >>, version |-> 1]
    /\ writers = NoWriters
    /\ accepted = {}
    /\ zone = 0
    /\ fires = NoFires
    /\ shell \in [proc : InvokeInputs(MaxLines), strict : BOOLEAN, out : {NoShell.out}]

\* ssh_client.py:122-149: the call is made
InvokeLine ==
    /\ shell.out.kind = "none"
    /\ shell' = [shell EXCEPT !.out = invoke_line(shell.proc, shell.strict)]
    /\ UNCHANGED <<fireVars, writerVars, zoneVars>>

InvokeNext == InvokeLine

SpecInvoke == InvokeInit /\ [][InvokeNext]_vars

\* C27: invoke_line raises ShellExecutionError, with the error lines
\* attached, whenever the command wrote error lines to its error stream
\* (lines starting with "Warning" count only when strict), whether or not it
\* also wrote to standard output; otherwise it returns the standard output.
C27_ErrorStreamAlwaysRaises ==
    (shell.out.kind # "none" /\ shell.proc.installed) =>
        IF FatalLines(shell.proc.stderr, shell.strict) # << >>
        THEN /\ shell.out.kind = "raise"
             /\ shell.out.exc.type = "ShellExecutionError"
             /\ shell.out.exc.stderror = FatalLines(shell.proc.stderr, shell.strict)
        ELSE shell.out = Return(shell.proc.stdout)

\* C28: the key file is erased, and the handle forgets it, only in the step
\* of cleanup that follows the accepted delete request and its wait returning
\* a DONE response without error; when cleanup fails the file is still on
\* disk and the handle still names it.
C28_EraseAfterDelete ==
    /\ []((Terminated /\ ExecutionOver /\ outcome # pending) =>
             (private_key_file # NonePath /\ private_key_file \in files))
    /\ [][((files' # files /\ files' \subseteq files)
             \/ (private_key_file # NonePath /\ private_key_file' = NonePath)) =>
             (/\ pc = "erase"
              /\ calls["delete"] = 1
              /\ deleteArg = InstanceName
              /\ ObservedDone
              /\ files' = files \ {private_key_file}
              /\ private_key_file' = NonePath)]_vars

C28_Witness ==
    /\ Terminated
    /\ ExecutionOver
    /\ calls["delete"] = 1
    /\ result.status = "DONE"
    /\ result.error.present
    /\ outcome.kind = "raise"
    /\ private_key_file \in files

\* C29: every attempt of remote_execute_script that ends in a
\* ShellExecutionError is followed by one sleep of retry_wait seconds, in the
\* step that catches it, the last attempt included: when the loop is
\* exhausted, max_retry >= 1 attempts have failed and max_retry sleeps were
\* taken before RemoteExecutionError is raised.
C29_SleepAfterEveryFailure ==
    /\ [](sleptSeconds =
             retry_wait * (failures["probe"] + failures["copy"] + failures["run"]))
    /\ [](failures["probe"] + failures["copy"] + failures["run"] <= attempt)
    /\ []((ExecEnded /\ pending.kind = "raise"
             /\ pending.exc.type = "RemoteExecutionError") =>
             (/\ max_retry >= 1
              /\ attempt = max_retry
              /\ failures["probe"] + failures["copy"] + failures["run"] = max_retry
              /\ sleptSeconds = max_retry * retry_wait))
    /\ [][failures' # failures =>
             (/\ pc \in {"probe", "copy", "run"}
              /\ failures' = [failures EXCEPT ![pc] = @ + 1]
              /\ IsShellExecutionError(err')
              /\ sleptSeconds' = sleptSeconds + retry_wait)
           \/ (ExecEnded /\ failures' = NoFailures /\ sleptSeconds' = 0)]_vars

C29_Witness ==
    /\ ExecEnded
    /\ pending.kind = "raise"
    /\ pending.exc.type = "RemoteExecutionError"
    /\ max_retry = MaxRetry
    /\ retry_wait = 5
    /\ sleptSeconds = MaxRetry * 5
    /\ failures["copy"] >= 1

\* C30: wait_for_response returns only DONE responses without an error
\* field; a DONE response with an error field, its error list empty or not,
\* makes it raise; and a response that is not DONE makes it neither return
\* nor raise: it stays in its loop.
C30_ReturnsOnlyCleanDone ==
    /\ [](waitReturn # NoResponse =>
             (waitReturn.status = "DONE" /\ ~waitReturn.error.present))
    /\ [][(pc \in {"create_wait", "meta_wait", "delete_wait"} /\ nGetOp' = nGetOp + 1) =>
             /\ (result'.status = "DONE" /\ result'.error.present) =>
                   (/\ pc' = "done"
                    /\ outcome'.kind = "raise"
                    /\ outcome'.exc = ClassifyOperationError(result')
                    /\ waitReturn' = NoResponse)
             /\ (result'.status = "DONE" /\ ~result'.error.present) =>
                   (/\ waitReturn' = result'
                    /\ pc' \in {"list_post", "execute", "erase"}
                    /\ outcome' = outcome)
             /\ nonTerminal' = nonTerminal + 1 =>
                   (/\ result'.status # "DONE"
                    /\ pc' = pc
                    /\ waitReturn' = NoResponse
                    /\ outcome' = outcome)
             /\ waitReturn' # waitReturn =>
                   (result'.status = "DONE" /\ ~result'.error.present)]_vars

C30_Witness ==
    /\ Terminated
    /\ calls["setMetadata"] = 1
    /\ calls["delete"] = 0
    /\ result.status = "DONE"
    /\ result.error.present
    /\ result.error.errors = << >>
    /\ outcome.kind = "raise"
    /\ outcome.exc.type = "Exception"
    /\ waitReturn = NoResponse

====
